---- MODULE Spec2Model ----
(***************************************************************************)
(* The rules engine of the card game "Deadline" (src/Deadline/game_logic.py)*)
(* as a state machine: two Game instances (one per peer) built over a       *)
(* shared MockNetwork, the engine's public action and turn methods, and     *)
(* the deck handshake of construction; the driver loop of cli.py; and the   *)
(* message handling of the Network class (src/Deadline/network.py).         *)
(*                                                                          *)
(* A Python exception leaves the mutations made before it in place; every   *)
(* operator that models a method returns the game record with `raised` set  *)
(* when the method raised, and the record carries exactly the mutations     *)
(* the code had made by then.                                               *)
(***************************************************************************)
EXTENDS Integers, Sequences, FiniteSets, TLC

VARIABLES games, net, pc, sel, obs, conn

vars == <<games, net, pc, sel, obs, conn>>

(***************************************************************************)
(* Bounds of the model and constants of the program.                        *)
(***************************************************************************)

\* Number of cards in the deck (game_config.json DECK_SIZE, scaled down).
DECK_SIZE == 3

\* Number of cards dealt to a hand and the hand limit (HAND_SIZE, scaled down).
HAND_SIZE == 1

\* turn_end is not called once the day counter has reached MaxDay.
MaxDay == 3

\* Calls with negative hours are not made once they would take the spent
\* hours or a deadline's progress below -MaxNegHours.
MaxNegHours == 1

\* Free hours per day with no effects (HOURS_IN_DAY_DEFAULT, scaled down).
HOURS_IN_DAY_DEFAULT == 2

\* Maximal number of free hours per day (_HOURS_IN_DAY_MAX, scaled down).
HOURS_IN_DAY_MAX == 3

\* Score at which turn_end reports 'win' (WIN_THRESHOLD, scaled down to the
\* awards of the catalog below).
WIN_THRESHOLD == 2

\* Score at which turn_end reports 'defeat' (DEFEAT_THRESHOLD, scaled down).
DEFEAT_THRESHOLD == 0 - 4

PlayerIDs == {0, 1}

\* Peer 1 is constructed with is_first = True, peer 2 with is_first = False.
Peers == {1, 2}

Min(a, b) == IF a <= b THEN a ELSE b

(***************************************************************************)
(* The catalog (Game._load_data): entries e0/ac0, t0, t1, t2, t4 and their  *)
(* cards as in dev/make_game_config.py, with hours, difficulties and task   *)
(* windows scaled down to the model's day; the special card tc2; an effect  *)
(* e2 whose 'add hours' delta is negative; a card ac3 with target GLOBAL    *)
(* whose effect e3 has different init, everyday and final events; and an    *)
(* effect e4 whose init events hold an event of a kind Game._events has no  *)
(* case for ('ocean of deadlines', as e1 of the shipped catalog) between    *)
(* two 'add hours' events; and a card ac5 with target ANY whose effect e5   *)
(* starts after a delay of one day.                                         *)
(***************************************************************************)

Ev(kind, arg) == [kind |-> kind, arg |-> arg]

ALL_EFFECTS ==
  [e0 |-> [period |-> 1, delay |-> 0, init_events |-> <<Ev("add hours", 1)>>,
           final_events |-> <<>>, everyday_events |-> <<>>],
   e2 |-> [period |-> 1, delay |-> 0, init_events |-> <<Ev("add hours", 0 - 2)>>,
           final_events |-> <<>>, everyday_events |-> <<>>],
   e3 |-> [period |-> 2, delay |-> 0, init_events |-> <<Ev("add hours", 0 - 1)>>,
           final_events |-> <<Ev("add hours", 0 - 2)>>,
           everyday_events |-> <<Ev("add hours", 1)>>],
   e4 |-> [period |-> 1, delay |-> 0,
           init_events |-> <<Ev("add hours", 2), Ev("ocean of deadlines", "none"),
                             Ev("add hours", 0 - 2)>>,
           final_events |-> <<>>, everyday_events |-> <<>>],
   e5 |-> [period |-> 1, delay |-> 1, init_events |-> <<Ev("add hours", 0 - 1)>>,
           final_events |-> <<>>, everyday_events |-> <<Ev("add hours", 1)>>]]

ALL_TASKS ==
  [t0 |-> [difficulty |-> 2, deadline |-> 2, award |-> 3, penalty |-> 0 - 6,
           events_on_success |-> <<>>, events_on_fail |-> <<>>],
   t4 |-> [difficulty |-> 1, deadline |-> 1, award |-> 1, penalty |-> 0 - 2,
           events_on_success |-> <<>>, events_on_fail |-> <<>>],
   t1 |-> [difficulty |-> 2, deadline |-> 2, award |-> 5, penalty |-> 0 - 5,
           events_on_success |-> <<Ev("special task", "t2")>>, events_on_fail |-> <<>>],
   t2 |-> [difficulty |-> 1, deadline |-> 1, award |-> 0, penalty |-> 0 - 5,
           events_on_success |-> <<>>, events_on_fail |-> <<>>]]

TaskCard(valid_target, special, task) ==
  [type |-> "TaskCard", valid_target |-> valid_target, special |-> special,
   task |-> task, cost |-> 0, action |-> "none"]

ActionCard(valid_target, special, cost, action) ==
  [type |-> "ActionCard", valid_target |-> valid_target, special |-> special,
   task |-> "none", cost |-> cost, action |-> action]

ALL_CARDS ==
  [tc0 |-> TaskCard("OPPONENT", FALSE, "t0"),
   tc1 |-> TaskCard("OPPONENT", FALSE, "t1"),
   tc2 |-> TaskCard("PLAYER", TRUE, "t2"),
   tc4 |-> TaskCard("OPPONENT", FALSE, "t4"),
   ac0 |-> ActionCard("PLAYER", FALSE, 0, "e0"),
   ac2 |-> ActionCard("OPPONENT", FALSE, 0, "e2"),
   ac3 |-> ActionCard("GLOBAL", FALSE, 0, "e3"),
   ac4 |-> ActionCard("PLAYER", FALSE, 0, "e4"),
   ac5 |-> ActionCard("ANY", FALSE, 0, "e5")]

CardIDs == DOMAIN ALL_CARDS

get_card_type(cid) == ALL_CARDS[cid].type

(***************************************************************************)
(* Entity model: Deadline and Player.                                       *)
(***************************************************************************)

\* Player.__init__
Player(pid) ==
  [pid |-> pid, hours_today |-> HOURS_IN_DAY_DEFAULT, spent_hours_today |-> 0,
   score |-> 0, hand |-> <<>>, deadlines |-> <<>>, effects |-> <<>>]

free_hours(p) == p.hours_today - p.spent_hours_today

get_rem_hours(d) == ALL_TASKS[d.task].difficulty - d.progress

\* Python list.pop(idx) for a 0-based idx within range.
Pop(s, idx) == SubSeq(s, 1, idx) \o SubSeq(s, idx + 2, Len(s))

\* Python s[a:b] for 0 <= a <= b.
Slice(s, a, b) == SubSeq(s, Min(a, Len(s)) + 1, Min(b, Len(s)))

Raise(g) == [g EXCEPT !.raised = TRUE]

(***************************************************************************)
(* The network collaborator: Network (src/Deadline/network.py). Text is a   *)
(* sequence of pieces of text (single characters under SpecNet); `conn` is  *)
(* the Network object of the receiving peer together with the bytes its     *)
(* peer has sent and it has not yet read (wire). `rx` is a history record:  *)
(* all the text recv has returned.                                          *)
(***************************************************************************)

NL == "\n"

Comma == ","

RECURSIVE Count(_, _)
\* bytes.count(sep) for a one-character sep
Count(text, sep) ==
  IF text = <<>> THEN 0
  ELSE (IF Head(text) = sep THEN 1 ELSE 0) + Count(Tail(text), sep)

RECURSIVE IndexOf(_, _)
\* The 1-based position of the first sep in text (Len(text) + 1 if none).
IndexOf(text, sep) ==
  IF text = <<>> \/ Head(text) = sep THEN 1 ELSE 1 + IndexOf(Tail(text), sep)

RECURSIVE split(_, _, _)
\* text.split(sep, maxsplit) for maxsplit >= 0: the list of pieces
split(text, sep, maxsplit) ==
  IF maxsplit = 0 \/ Count(text, sep) = 0 THEN <<text>>
  ELSE <<SubSeq(text, 1, IndexOf(text, sep) - 1)>>
         \o split(SubSeq(text, IndexOf(text, sep) + 1, Len(text)), sep, maxsplit - 1)

\* Network.__init__: the receive buffer and the events dict.
NewNetwork ==
  [wire |-> <<>>, recv_buffer |-> <<>>, rx |-> <<>>,
   events_dict |-> (<<"quit">> :> <<>>) @@ (<<"create_deck">> :> <<>>)]

\* Network.add_event
add_event(events_dict, msg) ==
  LET msg_split == split(msg, Comma, Count(msg, Comma))
      event == msg_split[1]
      args == Tail(msg_split)
      old == IF event \in DOMAIN events_dict THEN events_dict[event] ELSE <<>>
  IN (event :> Append(old, args)) @@ events_dict

RECURSIVE add_events(_, _)
\* The loop of check_for_message over valid_messages.
add_events(events_dict, msgs) ==
  IF msgs = <<>> THEN events_dict
  ELSE add_events(add_event(events_dict, Head(msgs)), Tail(msgs))

\* Network.send_msg of the peer: the bytes go on the wire.
send_msg(c, msg) == [c EXCEPT !.wire = @ \o msg]

\* Network.check_for_message when socket.recv returned the first n bytes
\* of the wire.
check_for_message(c, n) ==
  LET data == SubSeq(c.wire, 1, n)
      buffer == c.recv_buffer \o data
      msg_count == Count(buffer, NL)
      valid_messages == split(buffer, NL, msg_count)
  IN [wire |-> SubSeq(c.wire, n + 1, Len(c.wire)),
      recv_buffer |-> buffer,
      rx |-> c.rx \o data,
      events_dict |-> add_events(c.events_dict, valid_messages)]

(***************************************************************************)
(* Construction: Game.__init__, _create_deck over MockNetwork, _deal_cards. *)
(***************************************************************************)

NewGameFixedPids(is_first) ==
  [is_first |-> is_first, player_pid |-> 1, opponent_pid |-> 0,
   players |-> [p \in PlayerIDs |-> Player(p)],
   day |-> 1, player_took_card |-> FALSE, opponent_took_card |-> FALSE,
   effects |-> <<>>, deck |-> <<>>,
   raised |-> FALSE, result |-> "none", resolutions |-> <<>>]

\* Game.__init__ up to the call of _create_deck. `resolutions` is a history
\* record: entry i counts the awards and penalties applied for the i-th
\* Deadline object this instance created.
NewGame(is_first) ==
  LET ppid == IF is_first THEN 1 ELSE 0
      opid == IF is_first THEN 0 ELSE 1
  IN [is_first |-> is_first, player_pid |-> ppid, opponent_pid |-> opid,
      players |-> [p \in PlayerIDs |-> Player(p)],
      day |-> 1, player_took_card |-> FALSE, opponent_took_card |-> FALSE,
      effects |-> <<>>, deck |-> <<>>,
      raised |-> FALSE, result |-> "none", resolutions |-> <<>>]

\* The local player and the opponent of a game instance.
LocalPlayer(g) == g.players[g.player_pid]

LocalOpponent(g) == g.players[g.opponent_pid]

AllCardsSampled == CardIDs

NonSpecialCards == {c \in CardIDs : ~ALL_CARDS[c].special}

\* All values random.choices(non_special, k=DECK_SIZE) can return.
AllDecks == [1..DECK_SIZE -> NonSpecialCards]

\* Player.take_cards_from_deck
take_cards_from_deck(p, cards) == [p EXCEPT !.hand = @ \o cards]

DealSecondOverlapping(g) ==
  [g EXCEPT !.players[1] = take_cards_from_deck(@, Slice(g.deck, 0, HAND_SIZE)),
            !.players[0] = take_cards_from_deck(@, Slice(g.deck, HAND_SIZE - 1, 2 * HAND_SIZE - 1)),
            !.deck = Slice(g.deck, 2 * HAND_SIZE, Len(g.deck))]

DealByLocalRole(g) ==
  [g EXCEPT !.players[g.player_pid] = take_cards_from_deck(@, Slice(g.deck, 0, HAND_SIZE)),
            !.players[g.opponent_pid] = take_cards_from_deck(@, Slice(g.deck, HAND_SIZE, 2 * HAND_SIZE)),
            !.deck = Slice(g.deck, 2 * HAND_SIZE, Len(g.deck))]

\* Game._deal_cards
deal_cards(g) ==
  [g EXCEPT !.players[1] = take_cards_from_deck(@, Slice(g.deck, 0, HAND_SIZE)),
            !.players[0] = take_cards_from_deck(@, Slice(g.deck, HAND_SIZE, 2 * HAND_SIZE)),
            !.deck = Slice(g.deck, 2 * HAND_SIZE, Len(g.deck))]

\* MockNetwork.send_deck: the deck is appended to events_dict['create_deck'].
send_deck(q, deck) == Append(q, deck)

AdoptWithoutHead(q) == Tail(Head(q))

\* Game._create_deck, non-authority branch: events_dict['create_deck'].pop(0).
adopt_deck(q) == Head(q)

\* What is observed of the last public method call: which method it was,
\* whether it raised and what it returned. Unobserved runs keep obs at Unobserved.
Unobserved == [op |-> "off", raised |-> FALSE, result |-> "none"]

Observed(op, g) == [op |-> op, raised |-> g.raised, result |-> g.result]

TypeOK ==
  /\ pc \in [Peers -> {"new", "deck_ready", "dealt", "raised", "crashed", "over"}]
  /\ sel \in Peers
  /\ obs.op \in {"off", "init", "player_takes_card", "opponent_takes_card",
                 "player_uses_card", "opponent_uses_card", "player_spends_time",
                 "opponent_spends_time", "turn_begin", "turn_end"}
  /\ obs.raised \in BOOLEAN
  /\ \A p \in Peers : games[p].player_pid \in PlayerIDs

\* Both Game objects exist up to the call of _create_deck; the MockNetwork
\* they share has an empty 'create_deck' queue.
InitDeal ==
  /\ games = [p \in Peers |-> NewGame(p = 1)]
  /\ net = <<>>
  /\ pc = [p \in Peers |-> "new"]
  /\ sel = 1
  /\ obs = Unobserved
  /\ conn = NewNetwork

\* _create_deck of the authority: sample a deck and send it.
CreateDeckFirst ==
  /\ pc[1] = "new"
  /\ \E d \in AllDecks :
       /\ games' = [games EXCEPT ![1].deck = d]
       /\ net' = send_deck(net, d)
  /\ pc' = [pc EXCEPT ![1] = "deck_ready"]
  /\ UNCHANGED <<sel, obs, conn>>

\* _create_deck of the non-authority: one pass of the polling loop that
\* finds the queue empty.
WaitForDeck ==
  /\ pc[2] = "new"
  /\ Len(net) = 0
  /\ UNCHANGED vars

\* _create_deck of the non-authority: the queue holds a payload.
ReceiveDeck ==
  /\ pc[2] = "new"
  /\ Len(net) # 0
  /\ games' = [games EXCEPT ![2].deck = adopt_deck(net)]
  /\ net' = Tail(net)
  /\ pc' = [pc EXCEPT ![2] = "deck_ready"]
  /\ UNCHANGED <<sel, obs, conn>>

\* _deal_cards, the last statement of Game.__init__.
DealCards(p) ==
  /\ pc[p] = "deck_ready"
  /\ games' = [games EXCEPT ![p] = deal_cards(@)]
  /\ pc' = [pc EXCEPT ![p] = "dealt"]
  /\ UNCHANGED <<net, sel, obs, conn>>

NextDeal ==
  \/ CreateDeckFirst
  \/ WaitForDeck
  \/ ReceiveDeck
  \/ \E p \in Peers : DealCards(p)

SpecDeal == InitDeal /\ [][NextDeal]_vars

BothDealt == pc[1] = "dealt" /\ pc[2] = "dealt"

(***************************************************************************)
(* Legality checks and the action engine.                                   *)
(***************************************************************************)

\* Python's int(bool): True == 1 and False == 0 in a comparison with a pid.
BoolAsInt(b) == IF b THEN 1 ELSE 0

\* Every public method starts a new call: nothing raised, nothing returned.
Call(g) == [g EXCEPT !.raised = FALSE, !.result = "none"]

CanTakeCardIgnoringDeck(g, actor_pid) ==
  IF Len(g.players[actor_pid].hand) >= HAND_SIZE THEN FALSE
  ELSE IF \/ (actor_pid = g.player_pid /\ g.player_took_card)
          \/ (actor_pid = BoolAsInt(g.opponent_took_card) /\ g.opponent_took_card)
       THEN FALSE
  ELSE TRUE

\* Game._can_take_card, the 'res' of the returned dict.
can_take_card(g, actor_pid) ==
  IF Len(g.deck) = 0 THEN FALSE
  ELSE IF Len(g.players[actor_pid].hand) >= HAND_SIZE THEN FALSE
  ELSE IF \/ (actor_pid = g.player_pid /\ g.player_took_card)
          \/ (actor_pid = BoolAsInt(g.opponent_took_card) /\ g.opponent_took_card)
       THEN FALSE
  ELSE TRUE

\* Game._can_use_card, the 'res' of the returned dict.
can_use_card(g, actor_pid, cid) ==
  ~(get_card_type(cid) = "ActionCard" /\ ALL_CARDS[cid].cost > free_hours(g.players[actor_pid]))

\* Python list indexing: idx is valid when -len <= idx < len.
IndexOK(s, idx) == 0 - Len(s) <= idx /\ idx < Len(s)

\* The 1-based position a valid Python index denotes.
Position(s, idx) == IF idx >= 0 THEN idx + 1 ELSE Len(s) + idx + 1

\* Game._can_spend_time, the 'res' of the returned dict (the deadline exists).
can_spend_time(g, actor_pid, target_deadline_idx, hours) ==
  LET ds == g.players[actor_pid].deadlines IN
  IF hours > get_rem_hours(ds[Position(ds, target_deadline_idx)]) THEN FALSE
  ELSE IF hours > free_hours(g.players[actor_pid]) THEN FALSE
  ELSE TRUE

\* Deadline.__init__ for the next Deadline object of this instance.
Deadline(g, tid) ==
  [task |-> tid, init_day |-> g.day, deadline |-> g.day + ALL_TASKS[tid].deadline,
   progress |-> 0, did |-> Len(g.resolutions) + 1]

\* players[pid].deadlines.append(Deadline(task, day))
add_deadline(g, pid, tid) ==
  [g EXCEPT !.players[pid].deadlines = Append(@, Deadline(g, tid)),
            !.resolutions = Append(@, [award |-> 0, penalty |-> 0])]

\* Game._take_special_task
take_special_task(g, actor_pid, tid) == add_deadline(g, actor_pid, tid)

AddHoursUnclamped(g, pid, delta) ==
  [g EXCEPT !.players[pid].hours_today = @ + delta]

\* Game._events, case 'add hours'
add_hours(g, pid, delta) ==
  LET h == g.players[pid].hours_today + delta IN
  [g EXCEPT !.players[pid].hours_today = IF h > HOURS_IN_DAY_MAX THEN HOURS_IN_DAY_MAX ELSE h]

ApplyEventRaisesOnUnknown(g, ev, pid) ==
  CASE ev.kind = "special task" -> take_special_task(g, pid, ev.arg)
    [] ev.kind = "add hours" -> add_hours(g, pid, ev.arg)
    [] OTHER -> Raise(g)

\* Game._events, one iteration of the loop
apply_event(g, ev, pid) ==
  CASE ev.kind = "special task" -> take_special_task(g, pid, ev.arg)
    [] ev.kind = "add hours" -> add_hours(g, pid, ev.arg)
    [] OTHER -> g

RECURSIVE events(_, _, _)
\* Game._events
events(g, evs, pid) ==
  IF evs = <<>> THEN g ELSE events(apply_event(g, Head(evs), pid), Tail(evs), pid)

TakeCardUnchecked(g, actor_pid) ==
  IF Len(g.deck) = 0 THEN Raise(g)
  ELSE [g EXCEPT !.players[actor_pid] = take_cards_from_deck(@, <<Head(g.deck)>>),
                 !.deck = Tail(@),
                 !.player_took_card = IF actor_pid = g.player_pid THEN TRUE ELSE @,
                 !.opponent_took_card = IF actor_pid = g.player_pid THEN @ ELSE TRUE]

TakeCardKeepsDeck(g, actor_pid) ==
  IF ~can_take_card(g, actor_pid) THEN Raise(g)
  ELSE [g EXCEPT !.players[actor_pid] = take_cards_from_deck(@, <<Head(g.deck)>>),
                 !.player_took_card = IF actor_pid = g.player_pid THEN TRUE ELSE @,
                 !.opponent_took_card = IF actor_pid = g.player_pid THEN @ ELSE TRUE]

\* Game._take_card
take_card(g, actor_pid) ==
  IF ~can_take_card(g, actor_pid) THEN Raise(g)
  ELSE IF Len(g.deck) = 0 THEN Raise(g)
  ELSE [g EXCEPT !.players[actor_pid] = take_cards_from_deck(@, <<Head(g.deck)>>),
                 !.deck = Tail(@),
                 !.player_took_card = IF actor_pid = g.player_pid THEN TRUE ELSE @,
                 !.opponent_took_card = IF actor_pid = g.player_pid THEN @ ELSE TRUE]

PlayerSpendTimeOneMore(p, hours) == [p EXCEPT !.spent_hours_today = @ + hours + 1]

\* Player.spend_time after its assert
Player_spend_time(p, hours) == [p EXCEPT !.spent_hours_today = @ + hours]

\* The card's effect is appended and, with no delay, its init events fire
\* against the actor (Game._use_card, "Apply instant effect").
apply_instant_effect(g, actor_pid, eid) ==
  IF ALL_EFFECTS[eid].delay = 0 THEN events(g, ALL_EFFECTS[eid].init_events, actor_pid) ELSE g

HandIndexFromEnd(hand, idx) == 0 - Len(hand) <= idx /\ idx < Len(hand)

\* The assert of Player.use_card; hand.pop(idx) follows it.
valid_hand_index(hand, idx) == 0 <= idx /\ idx < Len(hand)

\* Game._use_card; target is <<>> for None and <<pid>> for a player id.
use_card(g, actor_pid, card_idx_in_hand, target) ==
  LET hand == g.players[actor_pid].hand IN
  IF ~valid_hand_index(hand, card_idx_in_hand) THEN Raise(g)
  ELSE
    LET cid == hand[Position(hand, card_idx_in_hand)]
        card == ALL_CARDS[cid]
        g1 == [g EXCEPT !.players[actor_pid].hand = Pop(@, Position(hand, card_idx_in_hand) - 1)]
        g2 == [g1 EXCEPT !.players[actor_pid] = Player_spend_time(@, card.cost)]
    IN
    IF ~can_use_card(g1, actor_pid, cid) THEN Raise(g1)
    ELSE IF card.valid_target = "GLOBAL" THEN
      IF get_card_type(cid) # "ActionCard" THEN Raise(g1)
      ELSE apply_instant_effect(
             [g2 EXCEPT !.effects = Append(@, <<g.day, card.action>>)], actor_pid, card.action)
    ELSE IF get_card_type(cid) = "ActionCard" THEN
      IF target = <<>> THEN Raise(g2)
      ELSE apply_instant_effect(
             [g2 EXCEPT !.players[target[1]].effects = Append(@, <<g.day, card.action>>)],
             actor_pid, card.action)
    ELSE
      IF target = <<>> THEN Raise(g1)
      ELSE add_deadline(g1, target[1], card.task)

WorkAcceptsOneMore(d, hours) == hours <= get_rem_hours(d) + 1

\* The assert of Deadline.work
work_accepts(d, hours) == hours <= get_rem_hours(d)

\* Deadline.work after its assert
work(d, hours) == [d EXCEPT !.progress = @ + hours]

WorkReturnsAnyProgress(d, hours) == IF work(d, hours).progress > 0 THEN "True" ELSE "False"

\* The value Deadline.work returns: whether the task is completed.
work_returns(d, hours) == IF get_rem_hours(work(d, hours)) = 0 THEN "True" ELSE "False"

SpendTimeResolves(g, actor_pid, target_deadline_idx, hours) ==
  LET ds == g.players[actor_pid].deadlines IN
  IF ~IndexOK(ds, target_deadline_idx) THEN Raise(g)
  ELSE IF ~(hours <= free_hours(g.players[actor_pid])) THEN Raise(g)
  ELSE
    LET pos == Position(ds, target_deadline_idx)
        g1 == [g EXCEPT !.players[actor_pid] = Player_spend_time(@, hours)]
    IN IF ~work_accepts(ds[pos], hours) THEN Raise(g1)
       ELSE IF work_returns(ds[pos], hours) = "True"
         THEN [g1 EXCEPT !.players[actor_pid].deadlines = Pop(@, pos - 1),
                         !.players[actor_pid].score = @ + ALL_TASKS[ds[pos].task].award]
         ELSE [g1 EXCEPT !.players[actor_pid].deadlines[pos] = work(@, hours)]

\* Game._spend_time. The assert on the dict returned by _can_spend_time
\* never fails; the call raises on a bad index, in Player.spend_time or in
\* Deadline.work. The value Deadline.work returns is dropped.
spend_time(g, actor_pid, target_deadline_idx, hours) ==
  LET ds == g.players[actor_pid].deadlines IN
  IF ~IndexOK(ds, target_deadline_idx) THEN Raise(g)
  ELSE IF ~(hours <= free_hours(g.players[actor_pid])) THEN Raise(g)
  ELSE
    LET pos == Position(ds, target_deadline_idx)
        g1 == [g EXCEPT !.players[actor_pid] = Player_spend_time(@, hours)]
    IN IF ~work_accepts(ds[pos], hours) THEN Raise(g1)
       ELSE [g1 EXCEPT !.players[actor_pid].deadlines[pos] = work(@, hours)]

(***************************************************************************)
(* The turn state machine. The loops of turn_begin and turn_end pop from    *)
(* the list they enumerate; idx is the 0-based index of enumerate, which    *)
(* goes on by one after a pop as well.                                      *)
(***************************************************************************)

RECURSIVE CompletedKeepInList(_, _, _)
CompletedKeepInList(g, pid, idx) ==
  LET ds == g.players[pid].deadlines IN
  IF idx >= Len(ds) THEN g
  ELSE IF get_rem_hours(ds[idx + 1]) = 0
       THEN CompletedKeepInList(
              events([g EXCEPT !.players[pid].score = @ + ALL_TASKS[ds[idx + 1].task].award,
                               !.resolutions[ds[idx + 1].did].award = @ + 1],
                     ALL_TASKS[ds[idx + 1].task].events_on_success, pid),
              pid, idx + 1)
       ELSE CompletedKeepInList(g, pid, idx + 1)

RECURSIVE check_completed_deadlines(_, _, _)
\* "Check ... completed deadlines" of turn_begin and turn_end
check_completed_deadlines(g, pid, idx) ==
  LET ds == g.players[pid].deadlines IN
  IF idx >= Len(ds) THEN g
  ELSE IF get_rem_hours(ds[idx + 1]) = 0
       THEN LET g1 == [g EXCEPT !.players[pid].score = @ + ALL_TASKS[ds[idx + 1].task].award,
                                !.resolutions[ds[idx + 1].did].award = @ + 1]
                g2 == events(g1, ALL_TASKS[ds[idx + 1].task].events_on_success, pid)
                g3 == [g2 EXCEPT !.players[pid].deadlines = Pop(@, idx)]
            IN check_completed_deadlines(g3, pid, idx + 1)
       ELSE check_completed_deadlines(g, pid, idx + 1)

RECURSIVE check_failed_deadlines(_, _, _)
\* "Check ... failed deadlines" of turn_begin and turn_end
check_failed_deadlines(g, pid, idx) ==
  LET ds == g.players[pid].deadlines IN
  IF idx >= Len(ds) THEN g
  ELSE IF ds[idx + 1].deadline = g.day
       THEN LET g1 == [g EXCEPT !.players[pid].score = @ + ALL_TASKS[ds[idx + 1].task].penalty,
                                !.resolutions[ds[idx + 1].did].penalty = @ + 1]
                g2 == events(g1, ALL_TASKS[ds[idx + 1].task].events_on_fail, pid)
                g3 == [g2 EXCEPT !.players[pid].deadlines = Pop(@, idx)]
            IN check_failed_deadlines(g3, pid, idx + 1)
       ELSE check_failed_deadlines(g, pid, idx + 1)

\* "Update number of hours"
update_hours(g, pid) ==
  [g EXCEPT !.players[pid].hours_today = HOURS_IN_DAY_DEFAULT,
            !.players[pid].spent_hours_today = 0]

EffectEventsFinalFirst(g, entry) ==
  LET effect == ALL_EFFECTS[entry[2]] IN
  IF g.day = entry[1] + effect.delay + effect.period THEN effect.final_events
  ELSE IF g.day = entry[1] + effect.delay THEN effect.everyday_events
  ELSE effect.init_events

\* The events list an effect fires on the current day.
effect_events(g, entry) ==
  LET effect == ALL_EFFECTS[entry[2]] IN
  IF g.day = entry[1] + effect.delay THEN effect.init_events
  ELSE IF g.day = entry[1] + effect.delay + effect.period THEN effect.final_events
  ELSE effect.everyday_events

RECURSIVE apply_active_effects(_, _, _)
\* "Apply active effects": the loop over a list built before the loop starts
apply_active_effects(g, entries, pid) ==
  IF entries = <<>> THEN g
  ELSE apply_active_effects(events(g, effect_events(g, Head(entries)), pid), Tail(entries), pid)

expired(day, entry) ==
  day = entry[1] + ALL_EFFECTS[entry[2]].delay + ALL_EFFECTS[entry[2]].period

RECURSIVE remove_expired(_, _, _)
\* "Remove expired effects": one enumerate-and-pop loop over an effects list
remove_expired(effs, day, idx) ==
  IF idx >= Len(effs) THEN effs
  ELSE IF expired(day, effs[idx + 1]) THEN remove_expired(Pop(effs, idx), day, idx + 1)
       ELSE remove_expired(effs, day, idx + 1)

ResetAndAdvanceDay(g) ==
  [g EXCEPT !.player_took_card = FALSE, !.opponent_took_card = FALSE, !.day = @ + 1]

\* The first statements of turn_begin and turn_end after the day update.
reset_took_card(g) == [g EXCEPT !.player_took_card = FALSE, !.opponent_took_card = FALSE]

\* Game.turn_begin
turn_begin(g) ==
  LET g1 == check_completed_deadlines(reset_took_card(g), g.opponent_pid, 0)
      g2 == update_hours(g1, g.player_pid)
      g3 == apply_active_effects(g2, g2.players[g.player_pid].effects \o g2.effects, g.player_pid)
      g4 == [g3 EXCEPT !.players[g.player_pid].effects = remove_expired(@, g3.day, 0),
                       !.effects = remove_expired(@, g3.day, 0)]
  IN check_failed_deadlines(g4, g.player_pid, 0)

\* Game.turn_end, "Check if it is impossible to continue the game" onwards
turn_result(g) ==
  IF /\ Len(g.deck) = 0 /\ Len(g.effects) = 0
     /\ Len(LocalPlayer(g).hand) = 0 /\ Len(LocalOpponent(g).hand) = 0
     /\ Len(LocalPlayer(g).deadlines) = 0 /\ Len(LocalOpponent(g).deadlines) = 0
     /\ Len(LocalPlayer(g).effects) = 0 /\ Len(LocalOpponent(g).effects) = 0
  THEN IF LocalPlayer(g).score = LocalPlayer(g).score THEN "draw"
       ELSE IF LocalPlayer(g).score > LocalPlayer(g).score THEN "win"
       ELSE "defeat"
  ELSE IF LocalPlayer(g).score >= WIN_THRESHOLD THEN "win"
  ELSE IF LocalPlayer(g).score <= DEFEAT_THRESHOLD THEN "defeat"
  ELSE "game continues"

TurnEndFailsLocalPlayer(g) ==
  LET g0 == reset_took_card([g EXCEPT !.day = @ + 1])
      g1 == check_completed_deadlines(g0, g.player_pid, 0)
      g2 == update_hours(g1, g.opponent_pid)
      g3 == apply_active_effects(g2, g2.players[g.opponent_pid].effects, g.opponent_pid)
      g4 == [g3 EXCEPT !.players[g.opponent_pid].effects = remove_expired(@, g3.day, 0),
                       !.effects = remove_expired(@, g3.day, 0)]
      g5 == check_failed_deadlines(g4, g.player_pid, 0)
  IN [g5 EXCEPT !.result = turn_result(g5)]

\* Game.turn_end
turn_end(g) ==
  LET g0 == reset_took_card([g EXCEPT !.day = @ + 1])
      g1 == check_completed_deadlines(g0, g.player_pid, 0)
      g2 == update_hours(g1, g.opponent_pid)
      g3 == apply_active_effects(g2, g2.players[g.opponent_pid].effects, g.opponent_pid)
      g4 == [g3 EXCEPT !.players[g.opponent_pid].effects = remove_expired(@, g3.day, 0),
                       !.effects = remove_expired(@, g3.day, 0)]
      g5 == check_failed_deadlines(g4, g.opponent_pid, 0)
  IN [g5 EXCEPT !.result = turn_result(g5)]

(***************************************************************************)
(* Getters: Game.get_game_info. Names are fixed at construction and         *)
(* _have_exams is never assigned after it; the values under 'constants'     *)
(* are the configured constants.                                            *)
(***************************************************************************)

eids_to_effects(effects) == [i \in DOMAIN effects |-> <<effects[i][1], ALL_EFFECTS[effects[i][2]]>>]

cids_to_cards(cids) == [i \in DOMAIN cids |-> ALL_CARDS[cids[i]]]

\* The entries that 'player' and 'opponent' have in common.
player_info(p) ==
  [pid |-> p.pid, score |-> p.score, hours |-> p.hours_today,
   spent_hours |-> p.spent_hours_today, free_hours |-> free_hours(p),
   deadlines |-> p.deadlines, effects |-> eids_to_effects(p.effects)]

global_info(g) ==
  [day |-> g.day, have_exams |-> FALSE, effects |-> eids_to_effects(g.effects),
   deck_size |-> Len(g.deck)]

GameInfoWithOpponentHand(g) ==
  [player |-> player_info(LocalPlayer(g)), hand |-> cids_to_cards(LocalPlayer(g).hand),
   opponent |-> player_info(LocalOpponent(g)), hand_size |-> LocalOpponent(g).hand,
   global |-> global_info(g)]

\* Game.get_game_info: `hand` is the entry 'hand' of 'player' and
\* `hand_size` the entry 'hand size' of 'opponent'.
get_game_info(g) ==
  [player |-> player_info(LocalPlayer(g)), hand |-> cids_to_cards(LocalPlayer(g).hand),
   opponent |-> player_info(LocalOpponent(g)), hand_size |-> Len(LocalOpponent(g).hand),
   global |-> global_info(g)]

(***************************************************************************)
(* The engine after construction. Both peers have been constructed over     *)
(* one MockNetwork from a sampled deck; the public action and turn methods  *)
(* of one of them (sel) are then called in any order, with any arguments    *)
(* from the sets below, failing calls included.                             *)
(***************************************************************************)

\* The decks the engine is driven from: each pattern repeated up to DECK_SIZE.
DeckPatterns ==
  { <<"ac0", "tc4", "ac0">>,
    <<"tc4", "ac2", "tc1">>,
    <<"tc4", "tc4", "tc4">> }

EngineDecks ==
  { [i \in 1..DECK_SIZE |-> pat[((i - 1) % Len(pat)) + 1]] : pat \in DeckPatterns }

\* Game.__init__ of peer p when the authority sampled deck d.
Constructed(p, d) ==
  deal_cards([NewGame(p = 1) EXCEPT !.deck = IF p = 1 THEN d ELSE adopt_deck(send_deck(<<>>, d))])

\* target_pid arguments for a card of the actor's hand: None, or the player
\* id a driver resolves the card's valid_target to (cli.game).
TargetArgs(g, actor_pid, idx) ==
  LET hand == g.players[actor_pid].hand
      vt == IF 0 <= idx /\ idx < Len(hand) THEN ALL_CARDS[hand[idx + 1]].valid_target ELSE "GLOBAL"
  IN {<<>>} \cup
     CASE vt = "PLAYER" -> {<<actor_pid>>}
       [] vt = "OPPONENT" -> {<<1 - actor_pid>>}
       [] vt = "ANY" -> {<<t>> : t \in PlayerIDs}
       [] OTHER -> {}

\* hours arguments of the spend-time methods as the drivers pass them (the
\* default is 1), and with a negative number of hours as well.
PositiveHours == {1, 2}

AnyHours == {0 - 1, 1, 2}

\* Index arguments for a list: every valid index, -1 and len(list).
IdxArgs(lst) == (0 - 1)..Len(lst)

Init ==
  /\ \E d \in EngineDecks : games = [p \in Peers |-> Constructed(p, d)]
  /\ net = <<>>
  /\ pc = [p \in Peers |-> "dealt"]
  /\ sel \in Peers
  /\ obs = Unobserved
  /\ conn = NewNetwork

\* The driven instance after a public method call that returned g2. What
\* the call raised or returned is not part of the instance.
Does(op, g2) ==
  /\ games' = [games EXCEPT ![sel] = Call(g2)]
  /\ obs' = IF obs.op = "off" THEN obs ELSE Observed(op, g2)
  /\ UNCHANGED <<net, pc, sel, conn>>

\* Game.player_takes_card
player_takes_card(g) == take_card(Call(g), g.player_pid)

\* Game.opponent_takes_card
opponent_takes_card(g) == take_card(Call(g), g.opponent_pid)

\* Game.player_uses_card
player_uses_card(g, idx, t) == use_card(Call(g), g.player_pid, idx, t)

\* Game.opponent_uses_card
opponent_uses_card(g, idx, t) == use_card(Call(g), g.opponent_pid, idx, t)

\* Game.player_spends_time
player_spends_time(g, idx, h) == spend_time(Call(g), g.player_pid, idx, h)

\* Game.opponent_spends_time
opponent_spends_time(g, idx, h) == spend_time(Call(g), g.opponent_pid, idx, h)

PlayerTakesCard ==
  /\ pc[sel] = "dealt"
  /\ Does("player_takes_card", player_takes_card(games[sel]))

OpponentTakesCard ==
  /\ pc[sel] = "dealt"
  /\ Does("opponent_takes_card", opponent_takes_card(games[sel]))

PlayerUsesCard ==
  /\ pc[sel] = "dealt"
  /\ \E idx \in IdxArgs(LocalPlayer(games[sel]).hand) :
       \E t \in TargetArgs(games[sel], games[sel].player_pid, idx) :
         Does("player_uses_card", player_uses_card(games[sel], idx, t))

OpponentUsesCard ==
  /\ pc[sel] = "dealt"
  /\ \E idx \in IdxArgs(LocalOpponent(games[sel]).hand) :
       \E t \in TargetArgs(games[sel], games[sel].opponent_pid, idx) :
         Does("opponent_uses_card", opponent_uses_card(games[sel], idx, t))

\* A call with negative hours is explored while it keeps the spent hours
\* and the progress at or above -MaxNegHours.
WithinNegBound(g, pid) ==
  /\ g.players[pid].spent_hours_today >= 0 - MaxNegHours
  /\ \A i \in DOMAIN g.players[pid].deadlines :
       g.players[pid].deadlines[i].progress >= 0 - MaxNegHours

PlayerSpendsTime(hours) ==
  \E idx \in IdxArgs(LocalPlayer(games[sel]).deadlines), h \in hours :
    /\ WithinNegBound(player_spends_time(games[sel], idx, h), games[sel].player_pid)
    /\ Does("player_spends_time", player_spends_time(games[sel], idx, h))

OpponentSpendsTime(hours) ==
  \E idx \in IdxArgs(LocalOpponent(games[sel]).deadlines), h \in hours :
    /\ WithinNegBound(opponent_spends_time(games[sel], idx, h), games[sel].opponent_pid)
    /\ Does("opponent_spends_time", opponent_spends_time(games[sel], idx, h))

TurnBegin ==
  /\ pc[sel] = "dealt"
  /\ Does("turn_begin", turn_begin(Call(games[sel])))

TurnEnd ==
  /\ pc[sel] = "dealt"
  /\ games[sel].day < MaxDay
  /\ Does("turn_end", turn_end(Call(games[sel])))

Next ==
  \/ PlayerTakesCard
  \/ OpponentTakesCard
  \/ PlayerUsesCard
  \/ OpponentUsesCard
  \/ PlayerSpendsTime(PositiveHours)
  \/ OpponentSpendsTime(PositiveHours)
  \/ TurnBegin
  \/ TurnEnd

Spec == Init /\ [][Next]_vars

\* The same engine when the spend-time methods are also called with a
\* negative number of hours.
NextAnyHours ==
  \/ PlayerTakesCard
  \/ OpponentTakesCard
  \/ PlayerUsesCard
  \/ OpponentUsesCard
  \/ PlayerSpendsTime(AnyHours)
  \/ OpponentSpendsTime(AnyHours)
  \/ TurnBegin
  \/ TurnEnd

SpecAnyHours == Init /\ [][NextAnyHours]_vars

\* The engine configured with a deck that leaves two cards after the deal,
\* when only the card and turn methods are called.
DrawDeckSize == 2 * HAND_SIZE + 2

DrawPatterns ==
  { <<"ac0", "tc4", "ac0">>,
    <<"tc4", "tc4", "tc4">> }

DrawDecks ==
  { [i \in 1..DrawDeckSize |-> pat[((i - 1) % Len(pat)) + 1]] : pat \in DrawPatterns }

InitDraw ==
  /\ \E d \in DrawDecks : games = [p \in Peers |-> Constructed(p, d)]
  /\ net = <<>>
  /\ pc = [p \in Peers |-> "dealt"]
  /\ sel \in Peers
  /\ obs = Unobserved
  /\ conn = NewNetwork

NextDraw ==
  \/ PlayerTakesCard
  \/ OpponentTakesCard
  \/ PlayerUsesCard
  \/ OpponentUsesCard
  \/ TurnBegin
  \/ TurnEnd

SpecDraw == InitDraw /\ [][NextDraw]_vars

\* The engine under Next when the catalog's GLOBAL card is in the deck.
GlobalPatterns ==
  { <<"ac3", "ac0", "tc4">>,
    <<"ac2", "ac3", "tc4">>,
    <<"ac3", "ac3", "tc4">>,
    <<"tc4", "tc4", "ac3">> }

GlobalDecks ==
  { [i \in 1..DECK_SIZE |-> pat[((i - 1) % Len(pat)) + 1]] : pat \in GlobalPatterns }

InitGlobal ==
  /\ \E d \in GlobalDecks : games = [p \in Peers |-> Constructed(p, d)]
  /\ net = <<>>
  /\ pc = [p \in Peers |-> "dealt"]
  /\ sel \in Peers
  /\ obs = Unobserved
  /\ conn = NewNetwork

SpecGlobal == InitGlobal /\ [][Next]_vars

\* The engine under Next when a card whose effect has an event of an
\* unknown kind is in the deck.
EventPatterns ==
  { <<"ac4", "tc4", "ac4">>,
    <<"tc1", "ac4", "ac0">> }

InitEvents ==
  /\ \E pat \in EventPatterns :
       games = [p \in Peers |->
                  Constructed(p, [i \in 1..DECK_SIZE |-> pat[((i - 1) % Len(pat)) + 1]])]
  /\ net = <<>>
  /\ pc = [p \in Peers |-> "dealt"]
  /\ sel \in Peers
  /\ obs = Unobserved
  /\ conn = NewNetwork

SpecEvents == InitEvents /\ [][Next]_vars

\* The engine under Next with the outcome of every call observed.
InitObserved ==
  /\ \E d \in EngineDecks : games = [p \in Peers |-> Constructed(p, d)]
  /\ net = <<>>
  /\ pc = [p \in Peers |-> "dealt"]
  /\ sel \in Peers
  /\ obs = [op |-> "init", raised |-> FALSE, result |-> "none"]
  /\ conn = NewNetwork

SpecObserved == InitObserved /\ [][Next]_vars

\* Construction from a deck the authority samples, followed by the card
\* and turn methods of the driven instance once it is constructed.
InitPlay ==
  /\ games = [p \in Peers |-> NewGame(p = 1)]
  /\ net = <<>>
  /\ pc = [p \in Peers |-> "new"]
  /\ sel \in Peers
  /\ obs = Unobserved
  /\ conn = NewNetwork

\* The cards of the catalog this construction samples from: a special
\* card, a task card and an action card.
PlayCards == {"tc2", "tc4", "ac0"}

\* _create_deck of the authority: sample a deck (any value random.choices
\* returns over these cards) and send it.
CreateDeckPlay ==
  /\ pc[1] = "new"
  /\ \E d \in [1..DECK_SIZE -> NonSpecialCards \cap PlayCards] :
       /\ games' = [games EXCEPT ![1].deck = d]
       /\ net' = send_deck(net, d)
  /\ pc' = [pc EXCEPT ![1] = "deck_ready"]
  /\ UNCHANGED <<sel, obs, conn>>

NextPlay ==
  \/ CreateDeckPlay
  \/ WaitForDeck
  \/ ReceiveDeck
  \/ \E p \in Peers : DealCards(p)
  \/ PlayerTakesCard
  \/ OpponentTakesCard
  \/ PlayerUsesCard
  \/ OpponentUsesCard
  \/ TurnBegin
  \/ TurnEnd

SpecPlay == InitPlay /\ [][NextPlay]_vars

(***************************************************************************)
(* The Network object on its own: the peer sends text with send_msg and    *)
(* the receiver calls check_for_message, as tests/test_network.py does;     *)
(* socket.recv returns any non-empty prefix of what has been sent.          *)
(***************************************************************************)

\* The number of characters sent in one run.
MaxWire == 6

\* Network.__init__, buffer_size
BufferSize == 1024

\* The texts given to send_msg: whole messages and the two parts of one.
Sends ==
  { <<"a", Comma, "1", NL>>,
    <<"b", NL>>,
    <<"a", Comma>>,
    <<"1", NL>> }

InitNet ==
  /\ games = [p \in Peers |-> NewGame(p = 1)]
  /\ net = <<>>
  /\ pc = [p \in Peers |-> "new"]
  /\ sel = 1
  /\ obs = Unobserved
  /\ conn = NewNetwork

SendMsg ==
  /\ \E m \in Sends :
       /\ Len(conn.rx) + Len(conn.wire) + Len(m) <= MaxWire
       /\ conn' = send_msg(conn, m)
  /\ UNCHANGED <<games, net, pc, sel, obs>>

\* check_for_message: with nothing to read recv raises BlockingIOError and
\* the method returns None.
CheckForMessage ==
  IF conn.wire = <<>> THEN UNCHANGED vars
  ELSE /\ \E n \in 1..Min(Len(conn.wire), BufferSize) : conn' = check_for_message(conn, n)
       /\ UNCHANGED <<games, net, pc, sel, obs>>

NextNet ==
  \/ SendMsg
  \/ CheckForMessage

SpecNet == InitNet /\ [][NextNet]_vars

(***************************************************************************)
(* The deck handshake of Game.__init__ when both peers are given a Network: *)
(* the authority's _create_deck calls Network.send_deck, the other peer's   *)
(* _create_deck polls events_dict['create_deck'] of its own Network. No     *)
(* code of the repository calls check_for_message, and the polling loop     *)
(* does not.                                                                *)
(***************************************************************************)

\* Network.send_deck for the deck Game._create_deck passes, a list of card
\* ids: card.cid is evaluated for every element before anything is sent,
\* and a str has no attribute cid.
Network_send_deck(c, deck) ==
  IF Len(deck) = 0
  THEN [raised |-> FALSE, conn |-> send_msg(c, <<"create_deck", Comma>>)]
  ELSE [raised |-> TRUE, conn |-> c]

CreateDeckKey == <<"create_deck">>

CreateDeckFirstNet ==
  /\ pc[1] = "new"
  /\ \E d \in AllDecks :
       LET r == Network_send_deck(conn, d) IN
       /\ games' = [games EXCEPT ![1].deck = d, ![1].raised = r.raised]
       /\ conn' = r.conn
       /\ pc' = [pc EXCEPT ![1] = IF r.raised THEN "raised" ELSE "deck_ready"]
  /\ UNCHANGED <<net, sel, obs>>

\* _create_deck of the non-authority: one pass of the polling loop, or the
\* pop(0) that follows it.
CreateDeckSecondNet ==
  /\ pc[2] = "new"
  /\ IF Len(conn.events_dict[CreateDeckKey]) = 0 THEN UNCHANGED vars
     ELSE /\ games' = [games EXCEPT ![2].deck = Head(conn.events_dict[CreateDeckKey])]
          /\ conn' = [conn EXCEPT !.events_dict[CreateDeckKey] = Tail(@)]
          /\ pc' = [pc EXCEPT ![2] = "deck_ready"]
          /\ UNCHANGED <<net, sel, obs>>

NextSync ==
  \/ CreateDeckFirstNet
  \/ CreateDeckSecondNet

\* Both constructors keep running.
SpecSync ==
  /\ InitNet
  /\ [][NextSync]_vars
  /\ WF_vars(CreateDeckFirstNet)
  /\ WF_vars(CreateDeckSecondNet)

(***************************************************************************)
(* The driver cli.game: two instances over one MockNetwork, game_data[i]    *)
(* being the instance of the peer whose turn it is (sel). A command is      *)
(* checked on that instance, applied to it with the player_ method and      *)
(* mirrored on the other instance with the opponent_ method; 'N' ends the   *)
(* turn on it and begins the turn on the other. A command the driver        *)
(* refuses changes nothing. An exception ends the program (crashed), a      *)
(* result 'win' or 'defeat' ends the loop (over).                           *)
(***************************************************************************)

Other(p) == 3 - p

\* Decks that leave two cards after the deal, with and without the GLOBAL card.
CliDecks ==
  { [i \in 1..DrawDeckSize |-> pat[((i - 1) % Len(pat)) + 1]] :
      pat \in DeckPatterns \cup GlobalPatterns }

InitCli ==
  /\ \E d \in CliDecks : games = [p \in Peers |-> Constructed(p, d)]
  /\ net = <<>>
  /\ pc = [p \in Peers |-> "dealt"]
  /\ sel = 1
  /\ obs = Unobserved
  /\ conn = NewNetwork

\* The command's two calls: a on game_data[i], then b on game_data[1-i].
CliDo(a, b) ==
  /\ games' = [games EXCEPT ![sel] = Call(a),
                            ![Other(sel)] = IF a.raised THEN @ ELSE Call(b)]
  /\ pc' = IF a.raised \/ b.raised THEN [p \in Peers |-> "crashed"] ELSE pc
  /\ UNCHANGED <<net, sel, obs, conn>>

\* The target_pid the driver passes for a card.
CliTargets(g, cid) ==
  CASE ALL_CARDS[cid].valid_target = "ANY" -> {<<g.player_pid>>, <<g.opponent_pid>>}
    [] ALL_CARDS[cid].valid_target = "PLAYER" -> {<<g.player_pid>>}
    [] ALL_CARDS[cid].valid_target = "OPPONENT" -> {<<g.opponent_pid>>}
    [] OTHER -> {<<>>}

\* Command 'G'
CliTake ==
  /\ pc[sel] = "dealt"
  /\ can_take_card(games[sel], games[sel].player_pid)
  /\ CliDo(player_takes_card(games[sel]), opponent_takes_card(games[Other(sel)]))

\* Command 'U'
CliUse ==
  /\ pc[sel] = "dealt"
  /\ \E idx \in 0..(Len(LocalPlayer(games[sel]).hand) - 1) :
       LET cid == LocalPlayer(games[sel]).hand[idx + 1] IN
       /\ can_use_card(games[sel], games[sel].player_pid, cid)
       /\ \E t \in CliTargets(games[sel], cid) :
            CliDo(player_uses_card(games[sel], idx, t),
                  opponent_uses_card(games[Other(sel)], idx, t))

\* Command 'S'
CliSpend ==
  /\ pc[sel] = "dealt"
  /\ \E idx \in 0..(Len(LocalPlayer(games[sel]).deadlines) - 1) :
       /\ can_spend_time(games[sel], games[sel].player_pid, idx, 1)
       /\ CliDo(player_spends_time(games[sel], idx, 1),
                opponent_spends_time(games[Other(sel)], idx, 1))

\* Command 'N'
CliNext ==
  /\ pc[sel] = "dealt"
  /\ games[sel].day < MaxDay
  /\ LET a == turn_end(Call(games[sel])) IN
     IF a.result \in {"win", "defeat"}
     THEN /\ games' = [games EXCEPT ![sel] = a]
          /\ pc' = [p \in Peers |-> "over"]
          /\ UNCHANGED <<net, sel, obs, conn>>
     ELSE /\ games' = [games EXCEPT ![sel] = a,
                                    ![Other(sel)] = turn_begin(Call(@))]
          /\ sel' = Other(sel)
          /\ UNCHANGED <<net, pc, obs, conn>>

NextCli ==
  \/ CliTake
  \/ CliUse
  \/ CliSpend
  \/ CliNext

SpecCli == InitCli /\ [][NextCli]_vars

\* The driver over decks that hold the card whose effect has a delay.
DelayPatterns ==
  { <<"ac5", "tc4", "ac5">>,
    <<"ac0", "ac5", "ac2">> }

InitCliDelay ==
  /\ \E pat \in DelayPatterns :
       games = [p \in Peers |->
                  Constructed(p, [i \in 1..DrawDeckSize |-> pat[((i - 1) % Len(pat)) + 1]])]
  /\ net = <<>>
  /\ pc = [p \in Peers |-> "dealt"]
  /\ sel = 1
  /\ obs = Unobserved
  /\ conn = NewNetwork

SpecCliDelay == InitCliDelay /\ [][NextCli]_vars

(***************************************************************************)
(* Claims about construction, checked under SpecDeal.                       *)
(***************************************************************************)

\* Number of occurrences of card id c in the list s.
CountIn(s, c) == Cardinality({i \in DOMAIN s : s[i] = c})

\* p's _deal_cards runs in this step.
DealStep(p) == pc[p] = "deck_ready" /\ pc'[p] = "dealt"

\* C1: once the authority peer and the non-authority peer have both been
\* constructed over the same network collaborator, the two instances hold
\* the same deck: the same card ids in the same order.
C1_DecksIdentical == BothDealt => games[1].deck = games[2].deck

C1_Witness ==
  /\ BothDealt
  /\ Len(games[2].deck) > 0
  /\ games[1].players[1].hand # games[1].players[0].hand

\* C2: after construction of both peers the pids are mirrored, each peer's
\* player hand is the other peer's opponent hand, and within a peer both
\* hands have the same length.
C2_Mirrored ==
  BothDealt =>
    /\ games[1].player_pid = games[2].opponent_pid
    /\ games[1].opponent_pid = games[2].player_pid
    /\ games[1].player_pid # games[1].opponent_pid
    /\ LocalPlayer(games[1]).hand = LocalOpponent(games[2]).hand
    /\ LocalOpponent(games[1]).hand = LocalPlayer(games[2]).hand
    /\ \A p \in Peers : Len(LocalPlayer(games[p]).hand) = Len(LocalOpponent(games[p]).hand)

C2_Witness ==
  /\ BothDealt
  /\ Len(LocalPlayer(games[2]).hand) = HAND_SIZE
  /\ LocalPlayer(games[1]).hand # LocalPlayer(games[2]).hand

\* C3: dealing from a deck of N cards with hand size H gives pid 1 the first
\* H cards in order, pid 0 the next H cards in order, and leaves the deck
\* without its first 2H cards (length N - 2H), on whichever peer it runs.
C3_DealIsPrefixSplit ==
  [][\A p \in Peers :
       DealStep(p) =>
         LET d == games[p].deck IN
           /\ games'[p].players[1].hand = SubSeq(d, 1, HAND_SIZE)
           /\ games'[p].players[0].hand = SubSeq(d, HAND_SIZE + 1, 2 * HAND_SIZE)
           /\ games'[p].deck = SubSeq(d, 2 * HAND_SIZE + 1, Len(d))
           /\ Len(games'[p].deck) = Len(d) - 2 * HAND_SIZE]_vars

C3_Witness ==
  /\ pc[2] = "dealt"
  /\ pc[1] = "deck_ready"
  /\ Len(games[2].players[0].hand) = HAND_SIZE
  /\ games[2].players[0].hand # games[2].players[1].hand

\* C4 as stated: after dealing no card id is in both players' hands.
C4_NoSharedCardId ==
  \A p \in Peers :
    pc[p] = "dealt" =>
      \A c \in CardIDs :
        ~(CountIn(games[p].players[0].hand, c) > 0 /\ CountIn(games[p].players[1].hand, c) > 0)

\* C4 as amended: no card of the deck is dealt twice or lost. For every card
\* id, its copies in the two hands and the remaining deck after dealing are
\* exactly its copies in the deck before; the same id may be in both hands
\* because the deck is sampled with replacement.
C4_DealPartitionsDeck ==
  [][\A p \in Peers :
       DealStep(p) =>
         \A c \in CardIDs :
           CountIn(games'[p].players[0].hand, c) + CountIn(games'[p].players[1].hand, c)
             + CountIn(games'[p].deck, c) = CountIn(games[p].deck, c)]_vars

C4_Witness ==
  /\ BothDealt
  /\ \E c \in CardIDs :
       CountIn(games[1].players[0].hand, c) > 0 /\ CountIn(games[1].players[1].hand, c) > 0

(***************************************************************************)
(* Claims about the engine, checked under Spec and SpecAnyHours.            *)
(***************************************************************************)

\* The instance whose methods are called.
G == games[sel]

\* C5: in every state reachable through the public action and turn methods
\* each player's hand holds at most HAND_SIZE cards.
C5_HandWithinLimit ==
  \A pid \in PlayerIDs : Len(G.players[pid].hand) <= HAND_SIZE

\* A card has been drawn and the drawer's hand is full again.
C5_Witness ==
  /\ Len(G.deck) < DECK_SIZE - 2 * HAND_SIZE
  /\ \E pid \in PlayerIDs : Len(G.players[pid].hand) = HAND_SIZE

\* C6: the deck never grows after dealing, and whenever the deck is empty
\* _can_take_card is false for both actors (so it stays false from the
\* moment the deck is empty).
C6_DeckOnlyShrinks ==
  /\ [][Len(G'.deck) <= Len(G.deck)]_vars
  /\ [](Len(G.deck) = 0 => \A pid \in PlayerIDs : ~can_take_card(G, pid))

\* The deck has been emptied by draws and a player has room in the hand.
C6_Witness ==
  /\ Len(G.deck) = 0
  /\ \E pid \in PlayerIDs : Len(G.players[pid].hand) < HAND_SIZE

\* C7 as stated: spent_hours_today <= hours_today for each player in every
\* reachable state.
C7_SpentWithinHours ==
  \A pid \in PlayerIDs : G.players[pid].spent_hours_today <= G.players[pid].hours_today

\* The positive 'add hours' delta of the init events of a card's effect
\* when the card is a zero-cost action card without delay; 0 otherwise.
HourGain(cid) ==
  LET card == ALL_CARDS[cid] IN
  IF card.type = "ActionCard" /\ card.cost = 0 /\ ALL_EFFECTS[card.action].delay = 0
     /\ Len(ALL_EFFECTS[card.action].init_events) = 1
     /\ ALL_EFFECTS[card.action].init_events[1].kind = "add hours"
     /\ ALL_EFFECTS[card.action].init_events[1].arg > 0
  THEN ALL_EFFECTS[card.action].init_events[1].arg
  ELSE 0

\* This step is the actor's successful use of the hour-adding card at idx.
UsesHourCard(actor_pid, idx) ==
  /\ 0 <= idx /\ idx < Len(G.players[actor_pid].hand)
  /\ HourGain(G.players[actor_pid].hand[idx + 1]) > 0
  /\ ~use_card(Call(G), actor_pid, idx, <<actor_pid>>).raised
  /\ G' = Call(use_card(Call(G), actor_pid, idx, <<actor_pid>>))

\* C8: hours_today never exceeds HOURS_IN_DAY_MAX, however often an
\* hour-adding effect is applied, and each play of a zero-cost card that adds
\* hours leaves hours_today at the sum capped at HOURS_IN_DAY_MAX, so that
\* repeated plays end with exactly HOURS_IN_DAY_MAX.
C8_HoursCapped ==
  /\ [](\A pid \in PlayerIDs : G.players[pid].hours_today <= HOURS_IN_DAY_MAX)
  /\ [][\A pid \in PlayerIDs : \A idx \in 0..HAND_SIZE :
          UsesHourCard(pid, idx) =>
            G'.players[pid].hours_today =
              Min(G.players[pid].hours_today + HourGain(G.players[pid].hand[idx + 1]),
                  HOURS_IN_DAY_MAX)]_vars

\* A player has played the hour-adding card twice on day 1, the second play
\* going over the cap, and has HOURS_IN_DAY_MAX hours.
C8_Witness ==
  \E pid \in PlayerIDs :
    /\ G.players[pid].effects = <<<<1, "e0">>, <<1, "e0">>>>
    /\ G.day = 1
    /\ HOURS_IN_DAY_DEFAULT + 2 * HourGain("ac0") > HOURS_IN_DAY_MAX
    /\ G.players[pid].hours_today = HOURS_IN_DAY_MAX

\* All deadlines of the driven instance, as <<owner, position>>.
DeadlineSlots(g) ==
  UNION {{<<pid, i>> : i \in 1..Len(g.players[pid].deadlines)} : pid \in PlayerIDs}

DeadlineAt(g, x) == g.players[x[1]].deadlines[x[2]]

\* C9 as stated: for every deadline 0 <= progress <= task.difficulty in
\* every reachable state, and progress never decreases, for every hours
\* argument the spend-time methods accept.
C9_ProgressBounded ==
  /\ [](\A x \in DeadlineSlots(G) :
          /\ 0 <= DeadlineAt(G, x).progress
          /\ DeadlineAt(G, x).progress <= ALL_TASKS[DeadlineAt(G, x).task].difficulty)
  /\ [][\A x \in DeadlineSlots(G) : \A y \in DeadlineSlots(G') :
          DeadlineAt(G, x).did = DeadlineAt(G', y).did =>
            DeadlineAt(G, x).progress <= DeadlineAt(G', y).progress]_vars

\* C10: no deadline has both its award and its penalty applied, neither is
\* applied more than once, and a deadline is in its owner's list exactly
\* while neither has been applied (it is removed when it is resolved, and
\* only then), each deadline being in one list at one position.
C10_ResolvedAtMostOnce ==
  /\ \A id \in DOMAIN G.resolutions :
       /\ G.resolutions[id].award + G.resolutions[id].penalty <= 1
       /\ (G.resolutions[id].award + G.resolutions[id].penalty = 0)
            <=> (\E x \in DeadlineSlots(G) : DeadlineAt(G, x).did = id)
  /\ \A x \in DeadlineSlots(G) : \A y \in DeadlineSlots(G) :
       DeadlineAt(G, x).did = DeadlineAt(G, y).did => x = y

\* One deadline was resolved as a success and another as a failure, while
\* a third is still in a list.
C10_Witness ==
  /\ \E id \in DOMAIN G.resolutions : G.resolutions[id].award = 1
  /\ \E id \in DOMAIN G.resolutions : G.resolutions[id].penalty = 1
  /\ DeadlineSlots(G) # {}

(***************************************************************************)
(* Claims about deadlines, the card methods and the result of turn_end.     *)
(***************************************************************************)

\* No list of g holds the deadline with this id.
Gone(g, id) == \A x \in DeadlineSlots(g) : DeadlineAt(g, x).did # id

\* C11 as stated: a deadline that was never worked on is resolved as a
\* failure on the turn transition that checks its owner's list on its due
\* day (turn_begin for the local player, turn_end for the opponent): it is
\* removed and its penalty, and no award, has been applied once, wherever
\* it is in the list and whatever else the list holds.
C11_UnworkedFailsOnDueDay ==
  [][\A x \in DeadlineSlots(G) :
       LET d == DeadlineAt(G, x) IN
       (/\ d.progress = 0
        /\ G'.day = d.deadline
        /\ \/ (obs'.op = "turn_begin" /\ x[1] = G.player_pid)
           \/ (obs'.op = "turn_end" /\ x[1] = G.opponent_pid))
       => /\ Gone(G', d.did)
          /\ G'.resolutions[d.did].penalty = 1
          /\ G'.resolutions[d.did].award = 0]_vars

\* hours arguments tried on every reachable deadline.
HoursArgs == (0 - 1)..(HOURS_IN_DAY_MAX + 1)

\* C12: Deadline.work(hours) with hours greater than the remaining hours
\* is refused by its assert, so that _spend_time raises and the deadline's
\* progress is what it was.
C12_OverworkFails ==
  [](\A x \in DeadlineSlots(G) : \A h \in HoursArgs :
       h > get_rem_hours(DeadlineAt(G, x)) =>
         /\ ~work_accepts(DeadlineAt(G, x), h)
         /\ LET r == spend_time(Call(G), x[1], x[2] - 1, h)
            IN r.raised /\ r.players[x[1]].deadlines = G.players[x[1]].deadlines)

\* A player has spent hours although no deadline of theirs has progress, no
\* deadline was ever resolved and no card took hours: a spend-time call got
\* past Player.spend_time and was refused by Deadline.work.
C12_Witness ==
  \E pid \in PlayerIDs :
    /\ G.players[pid].spent_hours_today > 0
    /\ Len(G.players[pid].deadlines) > 0
    /\ \A i \in DOMAIN G.players[pid].deadlines : G.players[pid].deadlines[i].progress = 0
    /\ \A id \in DOMAIN G.resolutions : G.resolutions[id].award + G.resolutions[id].penalty = 0

\* C13: an accepted Deadline.work(hours) adds hours to progress and returns
\* True exactly when progress then equals the task's difficulty; after an
\* accepted call with fewer hours than remained (which returns False) a call
\* with the exact remainder is accepted, brings progress to the difficulty
\* and returns True.
C13_WorkReturnsCompletion ==
  [](\A x \in DeadlineSlots(G) : \A h \in HoursArgs :
       LET d == DeadlineAt(G, x)
           d1 == work(d, h)
       IN work_accepts(d, h) =>
            /\ d1.progress = d.progress + h
            /\ (work_returns(d, h) = "True") <=> (d1.progress = ALL_TASKS[d.task].difficulty)
            /\ h < get_rem_hours(d) =>
                 /\ work_returns(d, h) = "False"
                 /\ work_accepts(d1, get_rem_hours(d1))
                 /\ work(d1, get_rem_hours(d1)).progress = ALL_TASKS[d.task].difficulty
                 /\ work_returns(d1, get_rem_hours(d1)) = "True")

\* A deadline has been worked on for fewer hours than it takes: the exact
\* remainder is at least one hour.
C13_Witness ==
  \E x \in DeadlineSlots(G) :
    /\ DeadlineAt(G, x).progress > 0
    /\ get_rem_hours(DeadlineAt(G, x)) > 0

\* target_pid arguments of the use-card methods: None or a player id.
AnyTarget == {<<>>} \cup {<<q>> : q \in PlayerIDs}

\* C14: using a card at an index outside [0, len(hand)) raises and leaves
\* the hand, and the rest of the game, as it was; with an empty hand every
\* index is outside.
C14_BadIndexLeavesHand ==
  \A pid \in PlayerIDs : \A t \in AnyTarget :
    \A idx \in {0 - Len(G.players[pid].hand) - 1, 0 - 1,
                Len(G.players[pid].hand), Len(G.players[pid].hand) + 1} :
      use_card(Call(G), pid, idx, t) = Raise(Call(G))

\* A hand has been emptied by use-card calls while the deck still has a card.
C14_Witness ==
  \E pid \in PlayerIDs :
    /\ Len(G.players[pid].hand) = 0
    /\ Len(G.deck) = DECK_SIZE - 2 * HAND_SIZE

C16_OneCardPerDay ==
  /\ G.player_took_card => ~can_take_card(G, G.player_pid)
  /\ G.opponent_took_card => ~can_take_card(G, G.opponent_pid)

\* The number of 'special task' events in an events list.
RECURSIVE SpecialTasksIn(_)
SpecialTasksIn(evs) ==
  IF evs = <<>> THEN 0
  ELSE (IF Head(evs).kind = "special task" THEN 1 ELSE 0) + SpecialTasksIn(Tail(evs))

\* The init events an action card's effect fires when the card is used.
InstantEvents(cid) ==
  IF ALL_EFFECTS[ALL_CARDS[cid].action].delay = 0
  THEN ALL_EFFECTS[ALL_CARDS[cid].action].init_events
  ELSE <<>>

AllExhausted(g) ==
  /\ Len(g.deck) = 0 /\ Len(g.effects) = 0
  /\ \A q \in PlayerIDs :
       Len(g.players[q].hand) = 0 /\ Len(g.players[q].deadlines) = 0 /\ Len(g.players[q].effects) = 0

\* C18 as stated: when turn_end has resolved the deadlines, a score of the
\* local player at or above WIN_THRESHOLD makes it return 'win' and a score
\* at or below DEFEAT_THRESHOLD makes it return 'defeat', also when deck,
\* hands, deadlines and effects are all exhausted.
C18_ThresholdDecides ==
  obs.op = "turn_end" =>
    /\ LocalPlayer(G).score >= WIN_THRESHOLD => obs.result = "win"
    /\ LocalPlayer(G).score <= DEFEAT_THRESHOLD => obs.result = "defeat"

\* C19 as stated: when everything is exhausted at the end of turn_end the
\* result compares the local player's score with the opponent's: 'draw'
\* only if equal, 'win' if higher, 'defeat' if lower.
C19_ExhaustedComparesScores ==
  (obs.op = "turn_end" /\ AllExhausted(G)) =>
    obs.result = (IF LocalPlayer(G).score = LocalOpponent(G).score THEN "draw"
                  ELSE IF LocalPlayer(G).score > LocalOpponent(G).score THEN "win"
                  ELSE "defeat")

TerminalResults == {"win", "defeat", "draw"}

\* C20 as stated: only turn_end reports a terminal outcome, and once a call
\* has returned 'win', 'defeat' or 'draw' no later call changes the game.
C20_GameOverIsTerminal ==
  /\ [](obs.result \in TerminalResults => obs.op = "turn_end")
  /\ [][obs.result \in TerminalResults => games' = games]_vars

(***************************************************************************)
(* Claims about the snapshot, the events and the turn bookkeeping, checked  *)
(* under SpecGlobal.                                                        *)
(***************************************************************************)

\* The hands the opponent could hold instead: same number of cards, any ids.
HandsOfLength(n) == [1..n -> CardIDs]

WithOpponentHand(g, h) == [g EXCEPT !.players[g.opponent_pid].hand = h]

\* C21: the snapshot of get_game_info is the same for any two game states
\* that differ only in which card ids the opponent holds; it depends on the
\* opponent's hand through its length only.
C21_SnapshotHidesOpponentHand ==
  \A h \in HandsOfLength(Len(LocalOpponent(G).hand)) :
    get_game_info(WithOpponentHand(G, h)) = get_game_info(G)

\* The opponent holds a card, the local player too, and another hand of the
\* same size gives the same snapshot.
C21_Witness ==
  /\ Len(LocalOpponent(G).hand) > 0
  /\ Len(LocalPlayer(G).hand) > 0
  /\ G.day > 1
  /\ \E h \in HandsOfLength(Len(LocalOpponent(G).hand)) :
       /\ h # LocalOpponent(G).hand
       /\ get_game_info(WithOpponentHand(G, h)) = get_game_info(G)
       /\ get_game_info(WithOpponentHand(G, h)).hand_size = Len(h)

\* The deltas of the catalog's 'add hours' events.
RECURSIVE AddHoursIn(_)
AddHoursIn(evs) ==
  IF evs = <<>> THEN {}
  ELSE (IF Head(evs).kind = "add hours" THEN {Head(evs).arg} ELSE {}) \cup AddHoursIn(Tail(evs))

AddHoursDeltas ==
  UNION { AddHoursIn(ALL_EFFECTS[eid].init_events) \cup AddHoursIn(ALL_EFFECTS[eid].final_events)
            \cup AddHoursIn(ALL_EFFECTS[eid].everyday_events) : eid \in DOMAIN ALL_EFFECTS }

Max(a, b) == IF a >= b THEN a ELSE b

\* C22 as stated: an 'add hours' event leaves the target's hours_today at
\* its old value plus the signed delta, clamped to 0..HOURS_IN_DAY_MAX, and
\* hours_today is never negative.
C22_AddHoursClampedBothWays ==
  \A pid \in PlayerIDs :
    /\ G.players[pid].hours_today >= 0
    /\ \A delta \in AddHoursDeltas :
         add_hours(Call(G), pid, delta).players[pid].hours_today
           = Max(0, Min(HOURS_IN_DAY_MAX, G.players[pid].hours_today + delta))

\* Between g and r no score has changed and every deadline of g is still
\* at its place in its owner's list.
ScoresAndDeadlinesKept(g, r) ==
  \A pid \in PlayerIDs :
    /\ r.players[pid].score = g.players[pid].score
    /\ Len(r.players[pid].deadlines) >= Len(g.players[pid].deadlines)
    /\ \A i \in DOMAIN g.players[pid].deadlines :
         r.players[pid].deadlines[i].did = g.players[pid].deadlines[i].did

\* C23: _take_card, _use_card and _spend_time, called for either player with
\* any arguments, change no score and remove no deadline, also when the
\* hours spent complete the deadline; only turn_begin and turn_end do.
C23_ActionsKeepScoresAndDeadlines ==
  \A pid \in PlayerIDs :
    /\ ScoresAndDeadlinesKept(G, take_card(Call(G), pid))
    /\ \A idx \in IdxArgs(G.players[pid].hand) : \A t \in AnyTarget :
         ScoresAndDeadlinesKept(G, use_card(Call(G), pid, idx, t))
    /\ \A idx \in IdxArgs(G.players[pid].deadlines) : \A h \in HoursArgs :
         ScoresAndDeadlinesKept(G, spend_time(Call(G), pid, idx, h))

\* Hours spent have completed a deadline: it is still in its owner's list,
\* no deadline was resolved so far and every score is what it was at the start.
C23_Witness ==
  /\ \E x \in DeadlineSlots(G) :
       /\ get_rem_hours(DeadlineAt(G, x)) = 0
       /\ G.players[x[1]].spent_hours_today = ALL_TASKS[DeadlineAt(G, x).task].difficulty
  /\ \A i \in DOMAIN G.resolutions : G.resolutions[i].award + G.resolutions[i].penalty = 0
  /\ \A pid \in PlayerIDs : G.players[pid].score = 0

(***************************************************************************)
(* Claims about the network collaborator, checked under SpecSync and        *)
(* SpecNet.                                                                 *)
(***************************************************************************)

CompleteLines(text) ==
  SubSeq(split(text, NL, Count(text, NL)), 1, Count(text, NL))

\* The event name and the arguments a message stands for.
Parsed(line) ==
  LET sp == split(line, Comma, Count(line, Comma)) IN <<sp[1], Tail(sp)>>

\* C25 as stated: text received without its terminating newline produces
\* no event, and a message whose newline has arrived, in one piece or in
\* more, has produced one event, parsed from the joined text.
C25_NoEventBeforeNewline ==
  /\ Count(conn.rx, NL) = 0 => \A name \in DOMAIN conn.events_dict : conn.events_dict[name] = <<>>
  /\ (Count(conn.rx, NL) = 1 /\ conn.rx[Len(conn.rx)] = NL) =>
       LET pr == Parsed(CompleteLines(conn.rx)[1]) IN
       /\ pr[1] \in DOMAIN conn.events_dict
       /\ conn.events_dict[pr[1]] = <<pr[2]>>

\* The arguments of the messages of `lines` named `name`, in order.
ArgsFor(lines, name) ==
  LET Named(l) == Parsed(l)[1] = name
      sel_lines == SelectSeq(lines, Named)
  IN [i \in DOMAIN sel_lines |-> Parsed(sel_lines[i])[2]]

\* C26 as stated: after any calls of check_for_message the events dict
\* holds, for every name, the arguments of the complete messages of that
\* name received so far, once each and in arrival order, and it has no
\* other keys than the initial ones and the names of those messages.
C26_OneEventPerMessage ==
  LET lines == CompleteLines(conn.rx) IN
  /\ DOMAIN conn.events_dict
       = DOMAIN NewNetwork.events_dict \cup {Parsed(lines[j])[1] : j \in DOMAIN lines}
  /\ \A name \in DOMAIN conn.events_dict : conn.events_dict[name] = ArgsFor(lines, name)

(***************************************************************************)
(* Claims about the day counter, checked under the driver SpecCli.          *)
(***************************************************************************)

\* In state g of an instance, no action method changes the day, turn_begin
\* does not, and turn_end adds exactly one.
DayKeptByCalls(g) ==
  /\ turn_end(Call(g)).day = g.day + 1
  /\ turn_begin(Call(g)).day = g.day
  /\ \A pid \in PlayerIDs :
       /\ take_card(Call(g), pid).day = g.day
       /\ \A idx \in IdxArgs(g.players[pid].hand) : \A t \in AnyTarget :
            use_card(Call(g), pid, idx, t).day = g.day
       /\ \A idx \in IdxArgs(g.players[pid].deadlines) : \A h \in HoursArgs :
            spend_time(Call(g), pid, idx, h).day = g.day

\* C27: the day of each instance starts at 1; in every reachable state
\* turn_end adds exactly 1 to it and no other method changes it; under the
\* driver's alternating turns a step changes an instance's day only by the
\* turn_end of the peer whose turn it is, by +1, so that the two instances
\* agree when a full round is over and the first peer's instance is one day
\* ahead in between.
C27_DayCountsRounds ==
  /\ \A p \in Peers : games[p].day = 1
  /\ [](\A p \in Peers : DayKeptByCalls(games[p]))
  /\ [][\A p \in Peers :
          \/ games[p].day' = games[p].day
          \/ /\ p = sel
             /\ games[p]' = turn_end(Call(games[p]))
             /\ games[p].day' = games[p].day + 1]_vars
  /\ [](pc[sel] = "dealt" =>
          games[1].day = games[2].day + (IF sel = 2 THEN 1 ELSE 0))

\* Two full rounds have been played: both instances are on day 3 and it
\* is the first peer's turn again.
C27_Witness ==
  /\ pc[sel] = "dealt"
  /\ sel = 1
  /\ games[1].day = 3
  /\ games[2].day = 3

(***************************************************************************)
(* Claims about the effect ticking and the deadline resolution of the turn  *)
(* methods, checked under SpecGlobal.                                       *)
(***************************************************************************)

\* The one events list the day rule selects for an effect entry.
ListForDay(day, entry) ==
  LET effect == ALL_EFFECTS[entry[2]] IN
  CASE day = entry[1] + effect.delay -> effect.init_events
    [] day # entry[1] + effect.delay /\ day = entry[1] + effect.delay + effect.period
         -> effect.final_events
    [] OTHER -> effect.everyday_events

RECURSIVE FiredLists(_, _)
\* The selected lists of the entries, one after the other in list order.
FiredLists(day, entries) ==
  IF entries = <<>> THEN <<>>
  ELSE ListForDay(day, Head(entries)) \o FiredLists(day, Tail(entries))

\* C28: turn_begin fires, against the acting player and nobody else, the
\* one list the day rule selects for each entry of the acting player's
\* effects followed by the global effects, in list order: the acting
\* player's hours are the default with exactly these events applied and
\* the opponent's hours are untouched.
C28_TurnBeginTicksPlayerAndGlobal ==
  LET pp == G.player_pid
      r == turn_begin(Call(G))
      fired == FiredLists(G.day, G.players[pp].effects \o G.effects)
  IN /\ r.players[pp].hours_today
          = events(update_hours(Call(G), pp), fired, pp).players[pp].hours_today
     /\ r.players[G.opponent_pid].hours_today = G.players[G.opponent_pid].hours_today

\* The acting player has a personal effect, a global effect is active, the
\* two select different non-empty lists on this day, and the turn_begin
\* call leaves the player with other hours than the default.
C28_Witness ==
  LET pp == G.player_pid IN
  /\ G.players[pp].effects # <<>>
  /\ G.effects # <<>>
  /\ ListForDay(G.day, G.players[pp].effects[1]) # <<>>
  /\ ListForDay(G.day, G.effects[1]) # <<>>
  /\ ListForDay(G.day, G.players[pp].effects[1]) # ListForDay(G.day, G.effects[1])
  /\ turn_begin(Call(G)).players[pp].hours_today # HOURS_IN_DAY_DEFAULT

\* C29 as stated: turn_end fires against the opponent, for the incremented
\* day, the list the day rule selects for each entry of the opponent's
\* effects and of the global effects: the opponent's hours are the default
\* with exactly these events applied.
C29_TurnEndTicksOpponentAndGlobal ==
  LET op == G.opponent_pid
      r == turn_end(Call(G))
      fired == FiredLists(G.day + 1, G.players[op].effects \o G.effects)
  IN r.players[op].hours_today
       = events(update_hours(Call(G), op), fired, op).players[op].hours_today

RECURSIVE PenaltiesApplied(_, _, _)
\* The sum of the penalties of the deadlines of ds failed between g and r.
PenaltiesApplied(ds, g, r) ==
  IF ds = <<>> THEN 0
  ELSE (IF r.resolutions[Head(ds).did].penalty > g.resolutions[Head(ds).did].penalty
        THEN ALL_TASKS[Head(ds).task].penalty ELSE 0)
       + PenaltiesApplied(Tail(ds), g, r)

CompletedResolved(g, r, pid) ==
  \A i \in DOMAIN g.players[pid].deadlines :
    LET d == g.players[pid].deadlines[i] IN
    get_rem_hours(d) = 0 =>
      /\ Gone(r, d.did)
      /\ r.resolutions[d.did].award = g.resolutions[d.did].award + 1

\* C31 as stated: after turn_end none of the local player's deadlines that
\* were complete when it was called remains, each having been awarded
\* exactly once, wherever it is in the list and however many are complete;
\* turn_begin does the same for the opponent's complete deadlines.
C31_CompletedAllResolved ==
  /\ CompletedResolved(G, turn_end(Call(G)), G.player_pid)
  /\ CompletedResolved(G, turn_begin(Call(G)), G.opponent_pid)

\* after holds no entry that expires on `day`, and every entry of before
\* that does not expire on `day` as often as before does.
PrunedExactly(before, after, day) ==
  LET EntriesIn(effs, entry) == Cardinality({i \in DOMAIN effs : effs[i] = entry}) IN
  /\ \A i \in DOMAIN after : ~expired(day, after[i])
  /\ \A i \in DOMAIN before :
       ~expired(day, before[i]) => EntriesIn(after, before[i]) = EntriesIn(before, before[i])

\* C32 as stated: after turn_begin the local player's effects and the
\* global effects, and after turn_end the opponent's effects and the global
\* effects, hold no entry with day == init_day + delay + period and have
\* lost no entry that has not expired, however many entries expire together
\* and wherever they are.
C32_ExpiredAllPruned ==
  LET b == turn_begin(Call(G))
      e == turn_end(Call(G))
  IN /\ PrunedExactly(LocalPlayer(G).effects, LocalPlayer(b).effects, b.day)
     /\ PrunedExactly(G.effects, b.effects, b.day)
     /\ PrunedExactly(LocalOpponent(G).effects, LocalOpponent(e).effects, e.day)
     /\ PrunedExactly(G.effects, e.effects, e.day)

(***************************************************************************)
(* Claims about Game._events and the deck's cards, checked under            *)
(* SpecEvents and SpecDeal.                                                 *)
(***************************************************************************)

\* Every events list of the catalog.
CatalogEventLists ==
  UNION {{ALL_EFFECTS[x].init_events, ALL_EFFECTS[x].final_events,
          ALL_EFFECTS[x].everyday_events} : x \in DOMAIN ALL_EFFECTS}
  \cup UNION {{ALL_TASKS[x].events_on_success, ALL_TASKS[x].events_on_fail} :
                x \in DOMAIN ALL_TASKS}

\* The events of evs whose kind Game._events has a case for, in order.
Recognized(evs) == SelectSeq(evs, LAMBDA ev : ev.kind \in {"special task", "add hours"})

\* C33: in every reachable state, for every events list of the catalog and
\* every target player, an event of a kind other than 'special task' and
\* 'add hours' leaves the whole game unchanged, and applying the list gives
\* the same game as applying only its recognized events in their order.
C33_UnknownEventIsNoOp ==
  \A pid \in PlayerIDs : \A evs \in CatalogEventLists :
    /\ \A i \in DOMAIN evs :
         Recognized(<<evs[i]>>) = <<>> => apply_event(Call(G), evs[i], pid) = Call(G)
    /\ events(Call(G), evs, pid) = events(Call(G), Recognized(evs), pid)

\* A player has played the card ac4 today: its init events added two hours
\* (capped), skipped the unknown event and took two hours off again.
C33_Witness ==
  \E pid \in PlayerIDs :
    /\ \E i \in DOMAIN G.players[pid].effects : G.players[pid].effects[i] = <<G.day, "e4">>
    /\ G.players[pid].hours_today = Min(HOURS_IN_DAY_DEFAULT + 2, HOURS_IN_DAY_MAX) - 2
    /\ G.players[pid].hours_today # HOURS_IN_DAY_DEFAULT

\* The card ids an instance holds: its deck and both hands.
HeldCards(g) ==
  {g.deck[i] : i \in DOMAIN g.deck}
  \cup UNION {{g.players[pid].hand[i] : i \in DOMAIN g.players[pid].hand} : pid \in PlayerIDs}

\* C34: the deck the authority creates holds exactly DECK_SIZE ids, and in
\* every state of construction and of play after it, on both peers, every
\* id in the deck and in either hand is the id of a non-special card of
\* the catalog.
C34_NoSpecialCardInDeckOrHands ==
  /\ pc[1] = "deck_ready" => Len(games[1].deck) = DECK_SIZE
  /\ \A p \in Peers : \A c \in HeldCards(games[p]) :
       c \in CardIDs /\ ~ALL_CARDS[c].special

\* Both peers are constructed, the driven instance is past day 1, its deck
\* has been drawn from and a hand is full again.
C34_Witness ==
  /\ BothDealt
  /\ G.day > 1
  /\ Len(G.deck) < DECK_SIZE - 2 * HAND_SIZE
  /\ \E pid \in PlayerIDs : Len(G.players[pid].hand) = HAND_SIZE

(***************************************************************************)
(* Claims about failing calls of the action methods, checked under Spec.    *)
(***************************************************************************)

\* C35 as stated: a use-card call that gets past the index check and then
\* fails (the cost check, the TypeError of a GLOBAL card that is not an
\* ActionCard, or a card for a player called without a target player)
\* leaves the game unchanged; the card is still in the actor's hand.
C35_FailedUseCardChangesNothing ==
  \A pid \in PlayerIDs : \A idx \in IdxArgs(G.players[pid].hand) : \A t \in AnyTarget :
    LET r == use_card(Call(G), pid, idx, t) IN
    (valid_hand_index(G.players[pid].hand, idx) /\ r.raised) =>
      /\ r.players[pid].hand = G.players[pid].hand
      /\ Call(r) = Call(G)

\* C36 as stated: a spend-time call for an existing deadline fails whenever
\* _can_spend_time answers False for it, and the failing call leaves the
\* actor's spent_hours_today and the deadline's progress as they were, also
\* when the hours fit the free hours and exceed the remaining work.
C36_RefusedSpendTimeChangesNothing ==
  \A x \in DeadlineSlots(G) : \A h \in HoursArgs :
    ~can_spend_time(G, x[1], x[2] - 1, h) =>
      LET r == spend_time(Call(G), x[1], x[2] - 1, h) IN
      /\ r.raised
      /\ r.players[x[1]].spent_hours_today = G.players[x[1]].spent_hours_today
      /\ DeadlineAt(r, x).progress = DeadlineAt(G, x).progress

(***************************************************************************)
(* Claims about the two peers under the driver, checked under SpecCli.      *)
(***************************************************************************)

\* What the two instances are compared on for a player: the score, the
\* hand and the deadlines as (task, due day, progress).
PlayerView(p) ==
  [score |-> p.score, hand |-> p.hand,
   deadlines |-> [i \in DOMAIN p.deadlines |->
                    <<p.deadlines[i].task, p.deadlines[i].deadline, p.deadlines[i].progress>>]]

\* C37 as stated: under the driver, whenever both instances have applied
\* the same commands (after every command and every change of turn), each
\* player's score, hand and deadlines are the same on both instances, and
\* no mirrored call fails.
C37_PeersStayConsistent ==
  /\ pc[sel] # "crashed"
  /\ \A pid \in PlayerIDs :
       PlayerView(games[1].players[pid]) = PlayerView(games[2].players[pid])

\* C38 as stated: on neither instance does a player's list hold a deadline
\* whose due day is before the instance's day; as only the turn methods
\* change the day or remove a deadline, this is the state after every
\* change of turn and after every command that follows it.
C38_NoDeadlineOutlivesDueDay ==
  \A p \in Peers : \A x \in DeadlineSlots(games[p]) :
    DeadlineAt(games[p], x).deadline >= games[p].day

(***************************************************************************)
(* Claims about when the events of an effect fire, checked under the        *)
(* driver (SpecCliDelay, SpecCli).                                          *)
(***************************************************************************)

\* The entries turn_begin of instance g ticks, and those turn_end ticks.
TickedByTurnBegin(g) == LocalPlayer(g).effects \o g.effects

TickedByTurnEnd(g) == LocalOpponent(g).effects

\* C39 as stated: no events list of an effect is fired on a day before
\* init_day + delay. At card use, a card whose effect has a delay fires
\* nothing (the call changes the actor's hand, spent hours and the effects
\* list only); when the turn passes, turn_end of the acting instance (on
\* its incremented day) and turn_begin of the other instance select an
\* empty list for every entry whose delay has not elapsed. A step that
\* changes sel is the command 'N' going through.
C39_NothingFiresBeforeDelay ==
  /\ [](\A p \in Peers : \A pid \in PlayerIDs :
          \A idx \in 0..(Len(games[p].players[pid].hand) - 1) : \A t \in AnyTarget :
            LET cid == games[p].players[pid].hand[idx + 1]
                r == use_card(Call(games[p]), pid, idx, t)
            IN (get_card_type(cid) = "ActionCard" /\ ALL_EFFECTS[ALL_CARDS[cid].action].delay > 0) =>
                 /\ \A q \in PlayerIDs : r.players[q].hours_today = games[p].players[q].hours_today
                 /\ \A q \in PlayerIDs : r.players[q].deadlines = games[p].players[q].deadlines)
  /\ [][sel' # sel =>
          LET e == [games[sel] EXCEPT !.day = @ + 1]
              b == games[Other(sel)]
          IN /\ \A i \in DOMAIN TickedByTurnEnd(e) :
                  LET entry == TickedByTurnEnd(e)[i] IN
                  e.day < entry[1] + ALL_EFFECTS[entry[2]].delay => effect_events(e, entry) = <<>>
             /\ \A i \in DOMAIN TickedByTurnBegin(b) :
                  LET entry == TickedByTurnBegin(b)[i] IN
                  b.day < entry[1] + ALL_EFFECTS[entry[2]].delay => effect_events(b, entry) = <<>>]_vars

\* The 'if' of the ticking loop selects init_events for this entry on `day`.
InitSelected(day, entry) == day = entry[1] + ALL_EFFECTS[entry[2]].delay

\* The init events of this entry were fired when its card was used.
FiredAtUse(entry) ==
  ALL_EFFECTS[entry[2]].delay = 0 /\ ALL_EFFECTS[entry[2]].init_events # <<>>

\* C40 as stated: the init events of an effect with delay 0, fired against
\* the actor when the card was used, are not fired again: when the turn
\* passes, neither turn_end of the acting instance (on its incremented day)
\* nor turn_begin of the other instance selects init_events for such an
\* entry.
C40_InitEventsFiredOnce ==
  [][sel' # sel =>
       LET e == games[sel]
           b == games[Other(sel)]
       IN /\ \A i \in DOMAIN TickedByTurnEnd(e) :
               FiredAtUse(TickedByTurnEnd(e)[i]) => ~InitSelected(e.day + 1, TickedByTurnEnd(e)[i])
          /\ \A i \in DOMAIN TickedByTurnBegin(b) :
               FiredAtUse(TickedByTurnBegin(b)[i]) => ~InitSelected(b.day, TickedByTurnBegin(b)[i])]_vars

====
